---------------------------- MODULE Spec2Model ----------------------------
(***************************************************************************)
(* A model of the Excel column mapper (src/app.py): the difflib-based      *)
(* fuzzy matcher, the AI suggestion adapter with its JSON extraction, the  *)
(* mapping loop of main() and create_mapped_dataframe.                     *)
(*                                                                         *)
(* A Python str is a sequence of one-character strings, so that lower(),   *)
(* find(), rfind(), slicing and SequenceMatcher are computed as the code   *)
(* computes them.  A similarity ratio 2.0*M/T is kept as the exact         *)
(* fraction <<2*M, T>>; a threshold is kept in hundredths (0.7 is 70).     *)
(***************************************************************************)
EXTENDS Integers, Sequences, FiniteSets, TLC

VARIABLES
    template_columns,  \* mapper.template_columns
    source_columns,    \* mapper.source_columns
    source_df,         \* mapper.source_df: [columns, n, data, error]
    threshold,         \* the threshold of the latest fuzzy_match_columns call
    fuzzy,             \* that call: [caller, raised, result]; caller "none" before any call
    chat,              \* what ollama.chat did in the latest get_ai_column_mapping call
    ai_call,           \* that call: [state, result, reported]; state "none" before any call
    ss_ai_mapping,     \* st.session_state.ai_mapping: [present, value]
    manual,            \* the selectbox inputs of the latest script run
    final_mapping,     \* final_mapping as the latest script run built it
    column_mapping,    \* the argument of the latest create_mapped_dataframe call
    converted          \* that call: [called, df]

vars == <<template_columns, source_columns, source_df, threshold, fuzzy, chat, ai_call,
          ss_ai_mapping, manual, final_mapping, column_mapping, converted>>

-----------------------------------------------------------------------------
(* Python values *)

\* None, and a str value, as the values a JSON member or a dict entry holds.
None == [tag |-> "None"]

StrVal(s) == [tag |-> "str", s |-> s]

\* A decoded JSON object held as a member's value (its members are not read
\* again by the program: it is only tested for membership in a list of str).
ObjVal == [tag |-> "dict"]

\* Python truthiness of such a value: None and "" are false.
Truthy(v) == v.tag = "dict" \/ (v.tag = "str" /\ Len(v.s) > 0)

\* The empty dict {}.
EmptyDict == [k \in {} |-> None]

\* d.get(k, None)
Get(d, k) == IF k \in DOMAIN d THEN d[k] ELSE None

\* d[k] = v on a dict
Put(d, k, v) == [x \in DOMAIN d \cup {k} |-> IF x = k THEN v ELSE d[x]]

\* x in list
InList(x, l) == \E i \in 1..Len(l) : l[i] = x

\* list.index(x): the first position (0-based) of x
Index(l, x) == (CHOOSE i \in 1..Len(l) : l[i] = x /\ \A j \in 1..(i - 1) : l[j] # x) - 1

\* str.lower() on the letters the column names use
LowerChar(c) ==
    CASE c = "A" -> "a"
      [] c = "B" -> "b"
      [] c = "C" -> "c"
      [] c = "N" -> "n"
      [] OTHER -> c

lower(s) == [i \in 1..Len(s) |-> LowerChar(s[i])]

-----------------------------------------------------------------------------
(* difflib.SequenceMatcher(None, a, b).ratio(), no junk (autojunk needs 200 *)
(* characters).  Indices are Python's: 0-based, hi exclusive.               *)

RECURSIVE RunLen(_, _, _, _, _, _)
\* the length of the common run a[i:], b[j:] inside a[:ahi], b[:bhi]
RunLen(a, b, i, j, ahi, bhi) ==
    IF i < ahi /\ j < bhi /\ a[i + 1] = b[j + 1]
    THEN 1 + RunLen(a, b, i + 1, j + 1, ahi, bhi)
    ELSE 0

\* find_longest_match: the longest matching block of a[alo:ahi] and
\* b[blo:bhi]; of the longest, the one starting earliest in a, and of those the
\* one starting earliest in b; (alo, blo, 0) when nothing matches.
find_longest_match(a, b, alo, ahi, blo, bhi) ==
    LET Blocks == {m \in (alo..(ahi - 1)) \X (blo..(bhi - 1)) :
                     RunLen(a, b, m[1], m[2], ahi, bhi) > 0}
        Size(m) == RunLen(a, b, m[1], m[2], ahi, bhi)
        Better(m, n) == \/ Size(m) > Size(n)
                        \/ Size(m) = Size(n) /\ m[1] < n[1]
                        \/ Size(m) = Size(n) /\ m[1] = n[1] /\ m[2] <= n[2]
    IN  IF Blocks = {}
        THEN [a |-> alo, b |-> blo, size |-> 0]
        ELSE LET best == CHOOSE m \in Blocks : \A n \in Blocks : Better(m, n)
             IN  [a |-> best[1], b |-> best[2], size |-> Size(best)]

RECURSIVE matches_count(_, _, _, _, _, _)
\* get_matching_blocks, summed: the block, then the pieces left and right of it
matches_count(a, b, alo, ahi, blo, bhi) ==
    LET m == find_longest_match(a, b, alo, ahi, blo, bhi)
    IN  IF m.size = 0
        THEN 0
        ELSE m.size
             + (IF alo < m.a /\ blo < m.b
                THEN matches_count(a, b, alo, m.a, blo, m.b) ELSE 0)
             + (IF m.a + m.size < ahi /\ m.b + m.size < bhi
                THEN matches_count(a, b, m.a + m.size, ahi, m.b + m.size, bhi) ELSE 0)

\* ratio(): 2.0 * matches / length, 1.0 when both are empty
ratio(a, b) ==
    IF Len(a) + Len(b) = 0
    THEN <<1, 1>>
    ELSE <<2 * matches_count(a, b, 0, Len(a), 0, Len(b)), Len(a) + Len(b)>>

\* r1 > r2 on two ratios
RatioGT(r1, r2) == r1[1] * r2[2] > r2[1] * r1[2]

\* ratio >= threshold, the threshold in hundredths
AtLeast(r, t) == 100 * r[1] >= t * r[2]

-----------------------------------------------------------------------------
(* Column names of the bounded inputs *)

\* column names of the matcher's inputs
MatchTemplateNames == {<<"A", "b">>, <<"c">>}

MatchSourceNames ==
    {<<"a", "b">>, <<"a", "b", "c">>, <<"c", "a", "b">>, <<"b">>, <<"b", "a">>}

\* "No mapping", the option main() puts before the source columns in every
\* selectbox
NoMappingOption == <<"N", "o", " ", "m", "a", "p", "p", "i", "n", "g">>

RECURSIVE TableOf(_)
\* the ratios of the pairs P as an explicit table
TableOf(P) ==
    IF P = {}
    THEN << >>
    ELSE LET p == CHOOSE q \in P : TRUE
         IN  (p :> ratio(lower(p[1]), lower(p[2]))) @@ TableOf(P \ {p})

\* the ratios of these names, computed once
RatioTable == TableOf(MatchTemplateNames \X MatchSourceNames)

-----------------------------------------------------------------------------
(* ColumnMapper.fuzzy_match_columns *)

\* matches[:3]
TopK == 3

\* if ratio >= threshold
Qualifies(r, t) == AtLeast(r, t)

\* difflib.SequenceMatcher(None, template_col.lower(), source_col.lower()).ratio()
similarity(template_col, source_col) ==
    IF <<template_col, source_col>> \in DOMAIN RatioTable
    THEN RatioTable[<<template_col, source_col>>]
    ELSE ratio(lower(template_col), lower(source_col))

\* the inner loop: one (source_col, ratio) per qualifying source column, in
\* the order of source_columns
col_matches(template_col, sources, t) ==
    LET F[i \in 0..Len(sources)] ==
            IF i = 0
            THEN << >>
            ELSE LET r == similarity(template_col, sources[i])
                 IN  IF Qualifies(r, t)
                     THEN Append(F[i - 1], <<sources[i], r>>)
                     ELSE F[i - 1]
    IN  F[Len(sources)]

\* where a stable descending sort puts x in an already sorted list: after
\* every entry whose score is not smaller
InsertDesc(l, x) ==
    LET n == Cardinality({i \in 1..Len(l) : ~RatioGT(x[2], l[i][2])})
    IN  SubSeq(l, 1, n) \o <<x>> \o SubSeq(l, n + 1, Len(l))

\* the sort without reverse=True: stable, ascending
sort_ascending(matches) ==
    LET Asc(l, x) ==
            LET n == Cardinality({i \in 1..Len(l) : ~RatioGT(l[i][2], x[2])})
            IN  SubSeq(l, 1, n) \o <<x>> \o SubSeq(l, n + 1, Len(l))
        F[i \in 0..Len(matches)] ==
            IF i = 0 THEN << >> ELSE Asc(F[i - 1], matches[i])
    IN  F[Len(matches)]

\* a sort that sorts ascending and then reverses the list: equal scores end
\* in the reverse of their source order
sort_then_reverse(matches) ==
    LET Asc(l, x) ==
            LET n == Cardinality({i \in 1..Len(l) : ~RatioGT(l[i][2], x[2])})
            IN  SubSeq(l, 1, n) \o <<x>> \o SubSeq(l, n + 1, Len(l))
        F[i \in 0..Len(matches)] ==
            IF i = 0 THEN << >> ELSE Asc(F[i - 1], matches[i])
        asc == F[Len(matches)]
    IN  [i \in 1..Len(asc) |-> asc[Len(asc) + 1 - i]]

\* matches.sort(key=lambda x: x[1], reverse=True): stable, descending
sort_desc(matches) ==
    LET F[i \in 0..Len(matches)] ==
            IF i = 0 THEN << >> ELSE InsertDesc(F[i - 1], matches[i])
    IN  F[Len(matches)]

\* matches[:3]
top(matches) == SubSeq(matches, 1, IF Len(matches) < TopK THEN Len(matches) ELSE TopK)

\* the dict fuzzy_matches: a key for each template column with a non-empty
\* list of matches
fuzzy_match_columns(templates, sources, t) ==
    LET M(c) == top(sort_desc(col_matches(c, sources, t)))
        Kept == {c \in {templates[i] : i \in 1..Len(templates)} : M(c) # << >>}
    IN  [c \in Kept |-> M(c)]

\* a slider that starts one step lower
SliderValuesWide ==
    {t \in 45..100 : t % 5 = 0}

\* st.slider(min_value=0.5, max_value=1.0, value=0.7, step=0.05), in hundredths
SliderMin == 50

SliderMax == 100

SliderStep == 5

SliderDefault == 70

SliderValues == {t \in SliderMin..SliderMax : (t - SliderMin) % SliderStep = 0}

-----------------------------------------------------------------------------
(* The AI response and json.loads.  A response is a sequence of tokens: the *)
(* braces, the comma, a complete member "key": value, a member's "key":     *)
(* prefix (an object follows as its value), and text that is no JSON.       *)

LBrace == "{"

RBrace == "}"

Comma == ","

Prose == "x"

\* the members: <<token, key, value>>
Members ==
    { <<"'Ab':'ba'", <<"A", "b">>, StrVal(<<"b", "a">>)>>,
      <<"'Ab':'ab'", <<"A", "b">>, StrVal(<<"a", "b">>)>>,
      <<"'c':null", <<"c">>, None>>,
      <<"'c':'ab'", <<"c">>, StrVal(<<"a", "b">>)>>,
      <<"'Ab':'No mapping'", <<"A", "b">>, StrVal(NoMappingOption)>> }

\* the key prefixes: <<token, key>>
KeyPrefixes == { <<"'c':", <<"c">>>> }

IsMember(tok) == \E m \in Members : m[1] = tok

IsKeyPrefix(tok) == \E k \in KeyPrefixes : k[1] = tok

MemberKey(tok) == (CHOOSE m \in Members : m[1] = tok)[2]

MemberValue(tok) == (CHOOSE m \in Members : m[1] = tok)[3]

PrefixKey(tok) == (CHOOSE k \in KeyPrefixes : k[1] = tok)[2]

\* a failed parse
Bad == [ok |-> FALSE, next |-> 0, value |-> EmptyDict]

RECURSIVE parse_object(_, _)
RECURSIVE parse_members(_, _, _)
\* the decoder on an object starting at position i (1-based): [ok, next, value]
parse_object(s, i) ==
    IF i > Len(s) \/ s[i] # LBrace
    THEN Bad
    ELSE IF i + 1 <= Len(s) /\ s[i + 1] = RBrace
         THEN [ok |-> TRUE, next |-> i + 2, value |-> EmptyDict]
         ELSE parse_members(s, i + 1, EmptyDict)

\* the members of an object from position i on, up to its closing brace; a
\* repeated key keeps its last value
parse_members(s, i, acc) ==
    IF i > Len(s)
    THEN Bad
    ELSE LET one == IF IsMember(s[i])
                    THEN [ok |-> TRUE, next |-> i + 1,
                          value |-> Put(acc, MemberKey(s[i]), MemberValue(s[i]))]
                    ELSE IF IsKeyPrefix(s[i])
                         THEN LET o == parse_object(s, i + 1)
                              IN  IF o.ok
                                  THEN [ok |-> TRUE, next |-> o.next,
                                        value |-> Put(acc, PrefixKey(s[i]), ObjVal)]
                                  ELSE Bad
                         ELSE Bad
         IN  IF ~one.ok \/ one.next > Len(s)
             THEN Bad
             ELSE IF s[one.next] = RBrace
                  THEN [ok |-> TRUE, next |-> one.next + 1, value |-> one.value]
                  ELSE IF s[one.next] = Comma
                       THEN parse_members(s, one.next + 1, one.value)
                       ELSE Bad

\* json.loads(json_str): [ok, value]; ok is FALSE where it raises
\* JSONDecodeError (nothing to decode, no object, or data after the object)
json_loads(s) ==
    LET o == parse_object(s, 1)
    IN  IF o.ok /\ o.next = Len(s) + 1
        THEN [ok |-> TRUE, value |-> o.value]
        ELSE [ok |-> FALSE, value |-> EmptyDict]

\* str.find(ch): the first index (0-based), -1 when absent
find(s, ch) ==
    IF \E i \in 1..Len(s) : s[i] = ch
    THEN (CHOOSE i \in 1..Len(s) : s[i] = ch /\ \A j \in 1..(i - 1) : s[j] # ch) - 1
    ELSE -1

\* str.rfind(ch): the last index (0-based), -1 when absent
rfind(s, ch) ==
    IF \E i \in 1..Len(s) : s[i] = ch
    THEN (CHOOSE i \in 1..Len(s) : s[i] = ch /\ \A j \in (i + 1)..Len(s) : s[j] # ch) - 1
    ELSE -1

\* s[start:end] for start, end >= 0
slice(s, start, end) == SubSeq(s, start + 1, IF end < Len(s) THEN end ELSE Len(s))

-----------------------------------------------------------------------------
(* ColumnMapper.get_ai_column_mapping.  What ollama.chat does is the input: *)
(* it raises (or answers without a message content), or it answers a text.  *)

ChatError == [kind |-> "error", content |-> << >>]

ChatText(s) == [kind |-> "text", content |-> s]

\* except Exception: report, return {}
except_exception(c) ==
    [state |-> "returned", result |-> EmptyDict,
     reported |-> "Error calling Ollama AI"]

\* a handler that reports and raises again
reraise_json_decode_error(c) ==
    [state |-> "raised", result |-> EmptyDict,
     reported |-> "Error parsing AI response as JSON"]

\* except json.JSONDecodeError: report, return {}
except_json_decode_error(c) ==
    [state |-> "returned", result |-> EmptyDict,
     reported |-> "Error parsing AI response as JSON"]

\* the else branch: no span to take
no_json_found(c) ==
    [state |-> "returned", result |-> EmptyDict,
     reported |-> "Could not extract JSON from AI response"]

\* the end taken at the first closing brace
end_index_first(ai_response) == find(ai_response, RBrace) + 1

\* end_idx = ai_response.rfind('}') + 1
end_index(ai_response) == rfind(ai_response, RBrace) + 1

\* the inner try block
extract_json(c) ==
    LET ai_response == c.content
        start_idx == find(ai_response, LBrace)
        end_idx == end_index(ai_response)
    IN  IF start_idx # -1 /\ end_idx # -1
        THEN LET ai_mapping == json_loads(slice(ai_response, start_idx, end_idx))
             IN  IF ai_mapping.ok
                 THEN [state |-> "returned", result |-> ai_mapping.value,
                       reported |-> "none"]
                 ELSE except_json_decode_error(c)
        ELSE no_json_found(c)

get_ai_column_mapping(c) ==
    IF c.kind = "error" THEN except_exception(c) ELSE extract_json(c)

-----------------------------------------------------------------------------
(* pandas.DataFrame, as far as create_mapped_dataframe uses it: the column *)
(* labels in order, the length of the index, the cells of each column, and  *)
(* whether an operation on it has raised.                                   *)

\* the missing cell
NaN == [col |-> << >>, row |-> 0]

\* the labels of a list of columns
Labels(columns) == {columns[i] : i \in 1..Len(columns)}

\* a column of n missing cells
NaNColumn(n) == [i \in 1..n |-> NaN]

\* pd.DataFrame(columns=columns): no rows
DataFrame(columns) ==
    [columns |-> columns, n |-> 0, data |-> [c \in Labels(columns) |-> << >>],
     error |-> FALSE]

\* pd.DataFrame(index=range(n), columns=columns): n rows of missing cells
DataFrameIndexed(n, columns) ==
    [columns |-> columns, n |-> n, data |-> [c \in Labels(columns) |-> NaNColumn(n)],
     error |-> FALSE]

\* df[label] = values.  A frame without rows takes the length of a non-empty
\* values as its index, its other columns becoming missing cells; otherwise
\* the lengths must agree (ValueError).  A new label is appended.
setitem(df, label, values) ==
    LET grown == IF df.n = 0 /\ Len(values) > 0
                 THEN [df EXCEPT !.n = Len(values),
                                 !.data = [c \in DOMAIN df.data |-> NaNColumn(Len(values))]]
                 ELSE df
    IN  IF df.error \/ Len(values) # grown.n
        THEN [df EXCEPT !.error = TRUE]
        ELSE [columns |-> IF InList(label, grown.columns)
                          THEN grown.columns
                          ELSE Append(grown.columns, label),
              n |-> grown.n,
              data |-> Put(grown.data, label, values),
              error |-> FALSE]

\* the values in reverse row order
values_reversed(source, source_col) ==
    [i \in 1..source.n |-> source.data[source_col][source.n + 1 - i]]

\* self.source_df[source_col].values
values_of(source, source_col) == source.data[source_col]

\* if source_col and source_col in self.source_df.columns
is_source_column(source, v) ==
    Truthy(v) /\ v.tag = "str" /\ InList(v.s, source.columns)

\* for template_col, source_col in column_mapping.items(): ...; the mapping is
\* the sequence of its items; the first loop slices the values to
\* [:len(self.source_df)]
copy_columns(df, mapping, source, sliced) ==
    LET F[i \in 0..Len(mapping)] ==
            IF i = 0
            THEN df
            ELSE IF is_source_column(source, mapping[i][2])
                 THEN LET values == values_of(source, mapping[i][2].s)
                      IN  setitem(F[i - 1], mapping[i][1],
                                  IF sliced THEN slice(values, 0, source.n) ELSE values)
                 ELSE F[i - 1]
    IN  F[Len(mapping)]

\* the frame never rebuilt
never_rebuilt(mapped_df, source) == FALSE

\* if len(mapped_df) == 0 and len(self.source_df) > 0
no_rows_yet(mapped_df, source) == mapped_df.n = 0 /\ source.n > 0

\* ColumnMapper.create_mapped_dataframe
create_mapped_dataframe(templates, source, mapping) ==
    LET mapped_df == copy_columns(DataFrame(templates), mapping, source, TRUE)
    IN  IF no_rows_yet(mapped_df, source)
        THEN copy_columns(DataFrameIndexed(source.n, templates), mapping, source, FALSE)
        ELSE mapped_df

\* a table read from a file: n rows, every cell labelled with its place
Table(columns, n) ==
    [columns |-> columns, n |-> n,
     data |-> [c \in Labels(columns) |-> [i \in 1..n |-> [col |-> c, row |-> i]]],
     error |-> FALSE]

-----------------------------------------------------------------------------
(* main(): the mapping section *)

\* the selectbox input of a run: the position chosen among the options, or
\* Untouched where the caller chose none and the box shows its default
Untouched == -1

\* options = ["No mapping"] + mapper.source_columns
options_of(sources) == <<NoMappingOption>> \o sources

\* suggested = st.session_state.ai_mapping.get(template_col, None), None
\* without the key 'ai_mapping'
suggested_for(ss, template_col) ==
    IF ss.present THEN Get(ss.value, template_col) ELSE None

\* if suggested and suggested in mapper.source_columns
suggestion_usable(suggested, sources) ==
    Truthy(suggested) /\ suggested.tag = "str" /\ InList(suggested.s, sources)

\* default_index
default_index(suggested, sources) ==
    IF suggestion_usable(suggested, sources)
    THEN Index(options_of(sources), suggested.s)
    ELSE 0

\* st.selectbox(..., options, index=default_index): the option chosen
selectbox(options, index, input) ==
    IF input = Untouched THEN options[index + 1] ELSE options[input + 1]

\* the loop over mapper.template_columns, final_mapping as its items in order
build_final_mapping(templates, sources, ss, inputs) ==
    LET F[i \in 0..Len(templates)] ==
            IF i = 0
            THEN << >>
            ELSE LET template_col == templates[i]
                     suggested == suggested_for(ss, template_col)
                     selected == selectbox(options_of(sources),
                                           default_index(suggested, sources),
                                           inputs[template_col])
                 IN  IF selected # NoMappingOption
                     THEN Append(F[i - 1], <<template_col, StrVal(selected)>>)
                     ELSE F[i - 1]
    IN  F[Len(templates)]

\* the result stored whatever it is
store_always(ss, ai_mapping) == [present |-> TRUE, value |-> ai_mapping]

\* if ai_mapping: st.session_state.ai_mapping = ai_mapping
store_ai_mapping(ss, ai_mapping) ==
    IF ai_mapping # EmptyDict THEN [present |-> TRUE, value |-> ai_mapping] ELSE ss

\* the inputs the selectboxes of a run can hold
Selections(templates, sources) == [Labels(templates) -> {Untouched} \cup (0..Len(sources))]

-----------------------------------------------------------------------------
(* Bounded inputs *)

\* the sequences without repetition over S, of length at most n (pandas
\* gives the columns of a file it reads distinct names)
UniqueSeqs(S, n) ==
    {s \in UNION {[1..k -> S] : k \in 0..n} :
        \A i, j \in 1..Len(s) : i # j => s[i] # s[j]}

MaxTemplateCols == 2

MaxSourceCols == 4

MaxRows == 2

MaxResponseLen == 5

\* thresholds fuzzy_match_columns is called with outside main(), in
\* hundredths: below the slider's range, its default, above the range
DirectThresholds == {0, 30, 70, 120}

\* the values of the variables before the operation they record
NoFuzzy == [caller |-> "none", raised |-> FALSE, result |-> EmptyDict]

NoChat == [kind |-> "none", content |-> << >>]

NoAICall == [state |-> "none", result |-> EmptyDict, reported |-> "none"]

NoAIMapping == [present |-> FALSE, value |-> EmptyDict]

NoConverted == [called |-> FALSE, df |-> DataFrame(<< >>)]

\* self.source_df = None, as a table without columns
NoTable == Table(<< >>, 0)

-----------------------------------------------------------------------------
(* The matcher: fuzzy_match_columns on bounded schemas *)

MatchInit ==
    /\ template_columns \in UniqueSeqs(MatchTemplateNames, MaxTemplateCols)
    /\ source_columns \in UniqueSeqs(MatchSourceNames, MaxSourceCols)
    /\ source_df = Table(source_columns, 0)
    /\ threshold = SliderDefault
    /\ fuzzy = NoFuzzy
    /\ chat = NoChat
    /\ ai_call = NoAICall
    /\ ss_ai_mapping = NoAIMapping
    /\ manual = EmptyDict
    /\ final_mapping = << >>
    /\ column_mapping = << >>
    /\ converted = NoConverted

\* main(): the "Fuzzy Match Analysis" button, with the slider's value.  The
\* selectboxes and final_mapping of that run are locals of the run, which the
\* button does not read or write; they are followed in Spec.
FuzzyMatchAnalysis ==
    /\ Len(template_columns) > 0 /\ Len(source_columns) > 0
    /\ \E t \in SliderValues :
        /\ threshold' = t
        /\ fuzzy' = [caller |-> "main", raised |-> FALSE,
                     result |-> fuzzy_match_columns(template_columns, source_columns, t)]
    /\ UNCHANGED <<template_columns, source_columns, source_df, chat, ai_call,
                   ss_ai_mapping, manual, final_mapping, column_mapping, converted>>

\* a call of mapper.fuzzy_match_columns(threshold) from outside main()
FuzzyMatchDirect ==
    /\ \E t \in DirectThresholds :
        /\ threshold' = t
        /\ fuzzy' = [caller |-> "direct", raised |-> FALSE,
                     result |-> fuzzy_match_columns(template_columns, source_columns, t)]
    /\ UNCHANGED <<template_columns, source_columns, source_df, chat, ai_call,
                   ss_ai_mapping, manual, final_mapping, column_mapping, converted>>

MatchNext == FuzzyMatchAnalysis \/ FuzzyMatchDirect

SpecMatch == MatchInit /\ [][MatchNext]_vars

-----------------------------------------------------------------------------
(* The suggestion adapter: get_ai_column_mapping on bounded responses *)

SuggestTokens == {LBrace, RBrace, Comma, Prose, "'Ab':'ba'", "'c':null", "'c':"}

SuggestChats ==
    {ChatError} \cup {ChatText(s) : s \in UNION {[1..k -> SuggestTokens] : k \in 0..MaxResponseLen}}

SuggestInit ==
    /\ chat \in SuggestChats
    /\ ai_call = NoAICall
    /\ template_columns = << >>
    /\ source_columns = << >>
    /\ source_df = NoTable
    /\ threshold = SliderDefault
    /\ fuzzy = NoFuzzy
    /\ ss_ai_mapping = NoAIMapping
    /\ manual = EmptyDict
    /\ final_mapping = << >>
    /\ column_mapping = << >>
    /\ converted = NoConverted

\* mapper.get_ai_column_mapping(model_name), ollama.chat doing what chat says
Suggest ==
    /\ ai_call.state = "none"
    /\ ai_call' = get_ai_column_mapping(chat)
    /\ UNCHANGED <<template_columns, source_columns, source_df, threshold, fuzzy, chat,
                   ss_ai_mapping, manual, final_mapping, column_mapping, converted>>

SuggestNext == Suggest

SpecSuggest == SuggestInit /\ [][SuggestNext]_vars

-----------------------------------------------------------------------------
(* The reshaper: create_mapped_dataframe on bounded tables and mappings *)

ReshapeTemplateNames == {<<"A">>, <<"B">>}

ReshapeSourceNames == {<<"A">>, <<"x">>}

\* the keys of a mapping: the template's names and one that is none of them
ReshapeKeys == ReshapeTemplateNames \cup {<<"Z">>}

\* the values of a mapping: the source's names, one that is none of them, None
ReshapeValues == {StrVal(n) : n \in ReshapeSourceNames \cup {<<"q">>}} \cup {None}

\* the dicts over these keys, as their items in order
ReshapeMappings ==
    {m \in UNION {[1..k -> ReshapeKeys \X ReshapeValues] : k \in 0..Cardinality(ReshapeKeys)} :
        \A i, j \in 1..Len(m) : i # j => m[i][1] # m[j][1]}

ReshapeInit ==
    /\ template_columns \in UniqueSeqs(ReshapeTemplateNames, MaxTemplateCols)
    /\ source_columns \in UniqueSeqs(ReshapeSourceNames, MaxSourceCols)
    /\ \E n \in 0..MaxRows : source_df = Table(source_columns, n)
    /\ column_mapping \in ReshapeMappings
    /\ converted = NoConverted
    /\ threshold = SliderDefault
    /\ fuzzy = NoFuzzy
    /\ chat = NoChat
    /\ ai_call = NoAICall
    /\ ss_ai_mapping = NoAIMapping
    /\ manual = EmptyDict
    /\ final_mapping = << >>

\* mapper.create_mapped_dataframe(column_mapping)
CreateMapped ==
    /\ ~converted.called
    /\ converted' = [called |-> TRUE,
                     df |-> create_mapped_dataframe(template_columns, source_df, column_mapping)]
    /\ UNCHANGED <<template_columns, source_columns, source_df, threshold, fuzzy, chat,
                   ai_call, ss_ai_mapping, manual, final_mapping, column_mapping>>

ReshapeNext == CreateMapped

SpecReshape == ReshapeInit /\ [][ReshapeNext]_vars

-----------------------------------------------------------------------------
(* A session of main(): every action is one run of the script, started by  *)
(* the interaction it is named after.  The selectboxes exist in a run that *)
(* reaches the mapping section; which of them the caller has set, and to   *)
(* what, is an input of each run.  The "Fuzzy Match Analysis" button, which *)
(* shares no state with the mapping section, is followed in SpecMatch.      *)

\* the columns of Template_Ecount.xlsx
SessionTemplate == << <<"A", "b">>, <<"c">> >>

\* the files the caller uploads: a file pandas cannot read, and readable ones
SessionFiles ==
    { [readable |-> FALSE, columns |-> << >>, n |-> 0],
      [readable |-> TRUE, columns |-> << <<"a", "b">>, <<"b", "a">> >>, n |-> 2],
      [readable |-> TRUE, columns |-> << <<"a", "b">> >>, n |-> 0],
      [readable |-> TRUE, columns |-> << NoMappingOption >>, n |-> 1] }

\* what ollama.chat does in a session
SessionChats ==
    { ChatError,
      ChatText(<<Prose>>),
      ChatText(<<LBrace, RBrace>>),
      ChatText(<<Prose, LBrace, "'Ab':'ba'", Comma, "'c':null", RBrace, Prose>>),
      ChatText(<<LBrace, "'Ab':'No mapping'", RBrace>>),
      ChatText(<<LBrace, "'c':'ab'", RBrace, Prose, LBrace, "'Ab':'ab'", RBrace>>) }

Init ==
    /\ template_columns = << >>
    /\ source_columns = << >>
    /\ source_df = NoTable
    /\ threshold = SliderDefault
    /\ fuzzy = NoFuzzy
    /\ chat = NoChat
    /\ ai_call = NoAICall
    /\ ss_ai_mapping = NoAIMapping
    /\ manual = EmptyDict
    /\ final_mapping = << >>
    /\ column_mapping = << >>
    /\ converted = NoConverted

\* if mapper.template_columns and mapper.source_columns
mapping_section_runs(templates, sources) == Len(templates) > 0 /\ Len(sources) > 0

\* the rest of a run, from the mapping section on, once the run has left the
\* mapper with these columns and the session with these suggestions
MappingSection(templates, sources, ss) ==
    IF mapping_section_runs(templates, sources)
    THEN \E inputs \in Selections(templates, sources) :
            /\ manual' = inputs
            /\ final_mapping' = build_final_mapping(templates, sources, ss, inputs)
    ELSE /\ manual' = EmptyDict
         /\ final_mapping' = << >>

\* the "Load Template File" button: load_template_file, the file there or not
LoadTemplate ==
    /\ \E exists \in BOOLEAN :
        template_columns' = IF exists THEN SessionTemplate ELSE template_columns
    /\ MappingSection(template_columns', source_columns, ss_ai_mapping)
    /\ UNCHANGED <<source_columns, source_df, threshold, fuzzy, chat, ai_call,
                   ss_ai_mapping, column_mapping, converted>>

\* a file put in the uploader: load_source_file.  Every later run loads the
\* file the uploader still holds again, which leaves the mapper as it is.
UploadSource ==
    /\ \E file \in SessionFiles :
        IF file.readable
        THEN /\ source_df' = Table(file.columns, file.n)
             /\ source_columns' = file.columns
        ELSE UNCHANGED <<source_df, source_columns>>
    /\ MappingSection(template_columns, source_columns', ss_ai_mapping)
    /\ UNCHANGED <<template_columns, threshold, fuzzy, chat, ai_call, ss_ai_mapping,
                   column_mapping, converted>>

\* the "Get AI Suggestions" button
GetAISuggestions ==
    /\ mapping_section_runs(template_columns, source_columns)
    /\ \E c \in SessionChats :
        /\ chat' = c
        /\ ai_call' = get_ai_column_mapping(c)
    /\ ss_ai_mapping' = store_ai_mapping(ss_ai_mapping, ai_call'.result)
    /\ MappingSection(template_columns, source_columns, ss_ai_mapping')
    /\ UNCHANGED <<template_columns, source_columns, source_df, threshold, fuzzy,
                   column_mapping, converted>>

\* a selectbox set by the caller: a run that only redraws
ChangeSelection ==
    /\ mapping_section_runs(template_columns, source_columns)
    /\ MappingSection(template_columns, source_columns, ss_ai_mapping)
    /\ UNCHANGED <<template_columns, source_columns, source_df, threshold, fuzzy, chat,
                   ai_call, ss_ai_mapping, column_mapping, converted>>

\* the "Generate Converted File" button
GenerateConvertedFile ==
    /\ mapping_section_runs(template_columns, source_columns)
    /\ MappingSection(template_columns, source_columns, ss_ai_mapping)
    /\ column_mapping' = final_mapping'
    /\ converted' = [called |-> TRUE,
                     df |-> create_mapped_dataframe(template_columns, source_df,
                                                    final_mapping')]
    /\ UNCHANGED <<template_columns, source_columns, source_df, threshold, fuzzy, chat,
                   ai_call, ss_ai_mapping>>

Next ==
    \/ LoadTemplate
    \/ UploadSource
    \/ GetAISuggestions
    \/ ChangeSelection
    \/ GenerateConvertedFile

Spec == Init /\ [][Next]_vars

-----------------------------------------------------------------------------
(* The reshaper's claims, under SpecReshape *)

\* C1: the table create_mapped_dataframe returns has exactly as many rows as
\* the source table, whatever the mapping (empty, partial, full, entries that
\* name no source column), a source table without rows included; no error is
\* raised.
C1_RowCountPreserved ==
    converted.called =>
        /\ ~converted.df.error
        /\ converted.df.n = source_df.n
        /\ \A c \in DOMAIN converted.df.data : Len(converted.df.data[c]) = source_df.n

\* C1's case: a source table without rows, reshaped under a mapping with an
\* entry that names one of its columns.
C1_Witness ==
    /\ converted.called
    /\ source_df.n = 0
    /\ \E i \in 1..Len(column_mapping) :
          /\ column_mapping[i][2].tag = "str"
          /\ column_mapping[i][2].s \in Labels(source_df.columns)

\* C2: the column sequence of the table create_mapped_dataframe returns is
\* the template schema: the same names in the same order, nothing added and
\* nothing dropped, for any mapping.
C2_SchemaEqualsTemplate ==
    converted.called => converted.df.columns = template_columns

\* C3: for every template column c and row i of the returned table, the cell
\* (i, c) is the source cell (i, s) when c is mapped to a column s of the
\* source, and the missing cell when the mapping has no entry for c.
C3_CellsCopiedOrMissing ==
    converted.called =>
        \A c \in Labels(template_columns) :
            LET items == {i \in 1..Len(column_mapping) : column_mapping[i][1] = c}
            IN  /\ items = {} =>
                      \A r \in 1..source_df.n : converted.df.data[c][r] = NaN
                /\ \A i \in items :
                      LET v == column_mapping[i][2]
                      IN  (v.tag = "str" /\ v.s \in Labels(source_df.columns)) =>
                              \A r \in 1..source_df.n :
                                  converted.df.data[c][r] = source_df.data[v.s][r]

\* C3's case: a table of two rows or more, one template column filled from
\* the source column of the same name and another template column unmapped.
C3_Witness ==
    /\ converted.called
    /\ source_df.n >= 2
    /\ \E i \in 1..Len(column_mapping) :
          /\ column_mapping[i][1] \in Labels(template_columns)
          /\ column_mapping[i][2] = StrVal(column_mapping[i][1])
          /\ column_mapping[i][1] \in Labels(source_df.columns)
    /\ \E c \in Labels(template_columns) :
          \A i \in 1..Len(column_mapping) : column_mapping[i][1] # c

-----------------------------------------------------------------------------
(* The matcher's claims, under SpecMatch *)

\* whether a threshold lies in [0.5, 1.0]
InRange(t) == 50 <= t /\ t <= 100

\* C5, as stated: fuzzy_match_columns called with a threshold outside
\* [0.5, 1.0] yields a threshold error and computes no matches.
C5_OutOfRangeRejected ==
    (fuzzy.caller # "none" /\ ~InRange(threshold)) =>
        (fuzzy.raised /\ fuzzy.result = EmptyDict)

\* C5, amended: the threshold main() passes to fuzzy_match_columns is the
\* slider's, always within [0.5, 1.0]; fuzzy_match_columns itself rejects
\* nothing: whatever the threshold, it raises no error and returns only
\* candidates whose score is at least the threshold.
C5_SliderBoundsThreshold ==
    /\ fuzzy.caller = "main" => InRange(threshold)
    /\ fuzzy.caller # "none" =>
          /\ ~fuzzy.raised
          /\ \A c \in DOMAIN fuzzy.result :
                \A i \in 1..Len(fuzzy.result[c]) :
                    100 * fuzzy.result[c][i][2][1] >= threshold * fuzzy.result[c][i][2][2]

\* C5's case: a call with a threshold below the range, which computed matches.
C5_Witness ==
    /\ fuzzy.caller = "direct"
    /\ threshold < 50
    /\ fuzzy.result # EmptyDict

\* the place (1-based) of a name in the source schema
PlaceOf(name) == CHOOSE i \in 1..Len(source_columns) : source_columns[i] = name

\* C6: every template column in the result of fuzzy_match_columns has a
\* candidate list that is not empty, has at most 3 entries, holds only
\* candidates with score >= threshold, is sorted by score descending, and
\* holds candidates of equal score in the order of the source schema.
C6_CandidateLists ==
    fuzzy.caller # "none" =>
        \A c \in DOMAIN fuzzy.result :
            LET l == fuzzy.result[c]
            IN  /\ c \in Labels(template_columns)
                /\ Len(l) >= 1
                /\ Len(l) <= 3
                /\ \A i \in 1..Len(l) :
                      /\ l[i][1] \in Labels(source_columns)
                      /\ 100 * l[i][2][1] >= threshold * l[i][2][2]
                /\ \A i, j \in 1..Len(l) :
                      i < j =>
                          /\ l[i][2][1] * l[j][2][2] >= l[j][2][1] * l[i][2][2]
                          /\ (l[i][2][1] * l[j][2][2] = l[j][2][1] * l[i][2][2]
                                => PlaceOf(l[i][1]) < PlaceOf(l[j][1]))

\* C6's case: a result with a list of three candidates, two of them of equal
\* score, and a template column left out of the result.
C6_Witness ==
    /\ fuzzy.caller # "none"
    /\ \E c \in DOMAIN fuzzy.result :
          /\ Len(fuzzy.result[c]) = 3
          /\ fuzzy.result[c][2][2] = fuzzy.result[c][3][2]
    /\ \E c \in Labels(template_columns) : c \notin DOMAIN fuzzy.result

\* C7: with the schemas unchanged, a call of fuzzy_match_columns at a
\* threshold not above the previous call's returns every candidate (template
\* column, source column, score) the previous call returned.
C7_LoweringKeepsCandidates ==
    [][(fuzzy.caller # "none" /\ threshold' <= threshold) =>
          \A c \in DOMAIN fuzzy.result :
              /\ c \in DOMAIN fuzzy'.result
              /\ \A i \in 1..Len(fuzzy.result[c]) :
                    \E j \in 1..Len(fuzzy'.result[c]) :
                        fuzzy'.result[c][j] = fuzzy.result[c][i]]_vars

\* C7's case: a call at the lowest threshold of the slider at which more than
\* three source columns qualify for a template column, so that the list is cut.
C7_Witness ==
    /\ fuzzy.caller # "none"
    /\ threshold = 50
    /\ \E c \in DOMAIN fuzzy.result :
          /\ Len(fuzzy.result[c]) = 3
          /\ Cardinality({i \in 1..Len(source_columns) :
                 LET r == ratio(lower(c), lower(source_columns[i]))
                 IN  100 * r[1] >= threshold * r[2]}) > 3

-----------------------------------------------------------------------------
(* The suggestion adapter's claims, under SpecSuggest *)

\* the places of the first opening and of the last closing brace (0 when
\* there is none)
FirstOpen(s) ==
    IF \E i \in 1..Len(s) : s[i] = "{"
    THEN CHOOSE i \in 1..Len(s) : s[i] = "{" /\ \A j \in 1..Len(s) : s[j] = "{" => i <= j
    ELSE 0

LastClose(s) ==
    IF \E i \in 1..Len(s) : s[i] = "}"
    THEN CHOOSE i \in 1..Len(s) : s[i] = "}" /\ \A j \in 1..Len(s) : s[j] = "}" => j <= i
    ELSE 0

\* the response gives nothing to decode: no '{', no '}', the last '}' before
\* the first '{', or text from the one to the other that does not decode
Undecodable(s) ==
    \/ FirstOpen(s) = 0
    \/ LastClose(s) = 0
    \/ LastClose(s) < FirstOpen(s)
    \/ ~json_loads(SubSeq(s, FirstOpen(s), LastClose(s))).ok

\* C8: get_ai_column_mapping never propagates a failure: for a transport
\* error and for a response that gives nothing to decode it reports the
\* problem and returns an empty mapping.
C8_FailureIsEmptyMapping ==
    ai_call.state # "none" =>
        /\ ai_call.state = "returned"
        /\ (chat.kind = "error" \/ Undecodable(chat.content)) =>
              (ai_call.result = EmptyDict /\ ai_call.reported # "none")

\* C8's case: a response whose only closing brace comes before its only
\* opening brace, answered by the call.
C8_Witness ==
    /\ ai_call.state = "returned"
    /\ chat.kind = "text"
    /\ FirstOpen(chat.content) > 0
    /\ LastClose(chat.content) > 0
    /\ LastClose(chat.content) < FirstOpen(chat.content)

\* the spans of the response that decode as a mapping
DecodableSpans(s) ==
    {p \in (1..Len(s)) \X (1..Len(s)) :
        p[1] <= p[2] /\ json_loads(SubSeq(s, p[1], p[2])).ok}

\* the first of them
FirstSpan(s) ==
    CHOOSE p \in DecodableSpans(s) : \A q \in DecodableSpans(s) : p[1] <= q[1]

\* C10, as stated: whenever the response holds a balanced object span that
\* decodes as a mapping, get_ai_column_mapping returns the decoding of the
\* first such span, whatever precedes or follows it.
C10_FirstBalancedSpan ==
    (ai_call.state # "none" /\ chat.kind = "text" /\ DecodableSpans(chat.content) # {}) =>
        ai_call.result =
            json_loads(SubSeq(chat.content, FirstSpan(chat.content)[1],
                              FirstSpan(chat.content)[2])).value

\* C10, amended: whenever the text from the first '{' of the response through
\* its last '}' decodes as a mapping, get_ai_column_mapping returns that
\* decoding, whatever precedes the first '{' and follows the last '}';
\* otherwise it returns the empty mapping.
C10_FirstToLastBrace ==
    (ai_call.state # "none" /\ chat.kind = "text") =>
        ai_call.result =
            IF Undecodable(chat.content)
            THEN EmptyDict
            ELSE json_loads(SubSeq(chat.content, FirstOpen(chat.content),
                                   LastClose(chat.content))).value

\* C10's case: a response with text before its first '{' and after its last
\* '}', and a nested object between them, decoded to a mapping.
C10_Witness ==
    /\ ai_call.state = "returned"
    /\ chat.kind = "text"
    /\ FirstOpen(chat.content) > 1
    /\ LastClose(chat.content) \in 1..(Len(chat.content) - 1)
    /\ ai_call.result # EmptyDict

-----------------------------------------------------------------------------
(* The session's claims, under Spec *)

\* the entry of a template column in final_mapping, None without one
FinalOf(c) ==
    IF \E i \in 1..Len(final_mapping) : final_mapping[i][1] = c
    THEN (CHOOSE e \in {final_mapping[i] : i \in 1..Len(final_mapping)} : e[1] = c)[2]
    ELSE None

\* the suggestion the session holds for a template column, None without one
StoredSuggestion(c) ==
    IF ss_ai_mapping.present /\ c \in DOMAIN ss_ai_mapping.value
    THEN ss_ai_mapping.value[c]
    ELSE None

\* C4: for each template column the source column chosen in final_mapping is
\* the caller's selection if the caller made one, else the AI suggestion if
\* it names a column of the current source schema, else none.
C4_EffectiveChoice ==
    mapping_section_runs(template_columns, source_columns) =>
        \A c \in Labels(template_columns) :
            FinalOf(c) =
                IF manual[c] # Untouched
                THEN IF manual[c] = 0 THEN None ELSE StrVal(source_columns[manual[c]])
                ELSE IF StoredSuggestion(c).tag = "str"
                        /\ StoredSuggestion(c).s \in Labels(source_columns)
                     THEN StoredSuggestion(c)
                     ELSE None

\* the latest suggestion call failed
LastCallFailed == ai_call.state # "none" /\ ai_call.reported # "none"

\* no template column the caller has not set is mapped
NothingSuggested ==
    \A c \in Labels(template_columns) : manual[c] = Untouched => FinalOf(c) = None

\* C9, as stated: after a suggestion call that fails, every template column
\* without a manual override resolves to no mapping, also when an earlier
\* suggestion call of the session had succeeded.
C9_FailedCallClearsSuggestions ==
    LastCallFailed => NothingSuggested

\* C9, amended: a suggestion call that fails leaves the suggestions the
\* session holds as they were; when the session holds none (no earlier call
\* succeeded), every template column without a manual override resolves to no
\* mapping, and otherwise the earlier suggestions stay in force.
C9_FailedCallKeepsStored ==
    /\ []((LastCallFailed /\ ~ss_ai_mapping.present) => NothingSuggested)
    /\ [][ai_call'.reported # "none" => ss_ai_mapping' = ss_ai_mapping]_vars

\* C9's case: a failed call after a successful one, the earlier suggestion
\* still chosen for a template column the caller has not set.
C9_Witness ==
    /\ LastCallFailed
    /\ ss_ai_mapping.present
    /\ \E c \in Labels(template_columns) : manual[c] = Untouched /\ FinalOf(c) # None

=============================================================================
